---- MODULE Spec2Model ----
(***************************************************************************)
(* TRACE AI backend (src/backend/main.py): the health endpoint and the     *)
(* four analysis endpoints, each request modelled as one handler           *)
(* invocation that advances through its external calls (the page fetch,    *)
(* the chat-completion call) and ends in exactly one ExplanationResponse.  *)
(*                                                                         *)
(* Text is modelled by TLA+ strings, with the program's own lengths.  A    *)
(* fetched page is a sequence of nodes, each carrying its text as a        *)
(* sequence of tokens: a token is one whitespace character (" " or "\n")   *)
(* or a word without whitespace; the text of a node is the concatenation   *)
(* of its tokens.  Optional[str] is a record [isNone, val].                *)
(***************************************************************************)
EXTENDS Naturals, Sequences, FiniteSets, TLC

\* Number of requests the service handles concurrently in the model.
NumRequests == 2

Requests == 1..NumRequests

VARIABLES
    pc,          \* per request: where its handler stands
    endpoint,    \* per request: the route it was dispatched to
    body,        \* per request: the validated request body
    fetched,     \* per request: the outcome of the page fetch
    messages,    \* per request: the messages of the completion call in flight
    aiResult,    \* per request: the outcome of the completion call
    response,    \* per request: the response returned to the caller
    trace,       \* per request: the stages it has entered, in order
    fetchCalls,  \* per request: number of http_client.get calls
    aiCalls,     \* per request: number of completion calls
    client       \* the module-level OpenAI client

vars ==
    <<pc, endpoint, body, fetched, messages, aiResult, response, trace,
      fetchCalls, aiCalls, client>>

(***************************************************************************)
(* Optional strings                                                        *)
(***************************************************************************)
None == [isNone |-> TRUE, val |-> ""]

Some(s) == [isNone |-> FALSE, val |-> s]

(***************************************************************************)
(* Literals of main.py                                                     *)
(***************************************************************************)
MAX_HTML_LENGTH == 10000

MAX_POLICY_LENGTH == 8000

HTML_TRUNCATION_MARKER == "... [HTML truncated]"

CONTENT_TRUNCATION_MARKER == "... [content truncated]"

InsecureSubmissionFallback ==
    "When a form sends data over HTTP instead of HTTPS, your information travels "
    \o "unencrypted across the internet. This means anyone monitoring network traffic "
    \o "could see your personal details, passwords, or other sensitive information."

PasswordInsecureFormFallback ==
    "Entering your password on an insecure form is extremely risky because hackers can easily "
    \o "intercept your password as it travels to the website. They could then use your password "
    \o "to access your accounts and steal your personal information or money."

DataRequestFallbackHead == "When filling out a '"

DataRequestFallbackTail ==
    "' form, always consider if the information asked is truly necessary for the service. "
    \o "Be extra careful with sensitive data like your SSN, financial details, or very personal information, especially if the site isn't well-known or doesn't clearly state how your data is used. "
    \o "If something feels off, it's better to be cautious and not submit the form."

\* The f-string of main.py:199-203.
DataRequestFallback(form_purpose) ==
    DataRequestFallbackHead \o form_purpose \o DataRequestFallbackTail

\* The source's bullet character (U+2022) is written "*" here.
PrivacyPolicyFallback ==
    "Unable to analyze this privacy policy automatically. "
    \o "When reviewing privacy policies yourself, look for: "
    \o "* How they share your data with third parties "
    \o "* What data they collect beyond what's necessary for their service "
    \o "* How long they keep your information "
    \o "* Whether you can delete your data easily"

FetchFailureExplanation ==
    "Unable to access the privacy policy. The link may be broken or the site may be blocking automated access."

AIUnavailablePrefix == "AI service unavailable, using fallback explanation: "

AnalysisUnavailablePrefix == "Analysis service unavailable: "

HTTPErrorPrefix == "HTTP error: "

\* Plausible change: the status reports a degraded analysis.
HealthPayloadReportsAI ==
    [status |-> IF \E q \in Requests : pc[q] = "DEGRADED" THEN "degraded" ELSE "healthy",
     service |-> "TRACE AI Backend", version |-> "1.0.0"]

\* main.py:70
HealthPayload ==
    [status |-> "healthy", service |-> "TRACE AI Backend", version |-> "1.0.0"]

\* The module-level client of main.py:42-45 (the key's value is the environment's).
OpenAIClient ==
    [api_key |-> "GOOGLE_API_KEY",
     base_url |-> "https://generativelanguage.googleapis.com/v1beta/openai/"]

(***************************************************************************)
(* Prompts                                                                 *)
(***************************************************************************)
SecurityPersona ==
    "You are a cybersecurity expert explaining risks to non-technical users. Use simple, clear language and avoid technical jargon."

InsecureSubmissionMessages ==
    [system |-> SecurityPersona,
     user |-> "Explain in simple, non-technical terms why submitting a form over HTTP (instead of HTTPS) is dangerous. Focus on how this affects regular internet users. Keep it to 2-3 sentences and avoid technical jargon."]

PasswordInsecureFormMessages ==
    [system |-> SecurityPersona,
     user |-> "Explain in simple terms why entering a password on an insecure (HTTP) form is extremely dangerous. Focus on what could happen to the user's password and accounts. Keep it to 2-3 sentences and use language that non-technical users can understand."]

DataRequestSystem ==
    "You are a privacy and security expert helping non-technical users understand data collection practices on web forms.\n"
    \o "Your task is to analyze the provided HTML of a web form.\n"
    \o "First, determine the likely purpose of the form based on its HTML content.\n"
    \o "Then, identify any input fields, labels, or data requests within the HTML that seem unusual, excessive, or suspicious for the form's determined purpose.\n"
    \o "Explain your findings in simple, clear, non-technical language.\n"
    \o "Focus on practical advice and what the user should consider.\n"
    \o "If specific fields are suspicious, mention them and why.\n"
    \o "If the form seems reasonable for its determined purpose, state that.\n"
    \o "Keep your explanation concise, ideally 2-4 sentences."

DataRequestUserHead ==
    "Please analyze the following HTML snippet of a web form:\n---HTML START---\n"

DataRequestUserTail ==
    "\n---HTML END---\n"
    \o "Determine the likely purpose of this form based on its HTML content. Then, identify any input fields or data requests within the HTML that seem unusual, excessive, or suspicious for the form's determined purpose.\n"
    \o "Explain your findings in simple, non-technical terms. If specific fields are suspicious, mention them and why. If the form seems reasonable for its purpose, state that."

PrivacyPolicySystem ==
    "You are a privacy expert helping non-technical users understand privacy policies. Focus on identifying concerning practices in simple, clear language."

PrivacyPolicyUserHead ==
    "Please analyze this privacy policy and identify the main red flags or concerning practices that a regular internet user should be aware of. \n\nPrivacy Policy Text:\n"

PrivacyPolicyUserTail ==
    "\n\nPlease provide a concise summary focusing on:\n"
    \o "1. How the company shares or sells user data\n"
    \o "2. What data they collect beyond what's necessary\n"
    \o "3. How long they keep user data\n"
    \o "4. Any concerning clauses about data usage\n\n"
    \o "Format your response as bullet points in simple, non-technical language. Keep it to 3-4 key points maximum. If the policy seems reasonable, say so."

NoMessages == [system |-> "", user |-> ""]

(***************************************************************************)
(* String helpers                                                          *)
(***************************************************************************)
\* s[:n]
Prefix(s, n) == IF Len(s) <= n THEN s ELSE SubSeq(s, 1, n)

\* s[len(s)-n:]
Suffix(s, n) == IF Len(s) <= n THEN s ELSE SubSeq(s, Len(s) - n + 1, Len(s))

EndsWith(s, t) == Len(s) >= Len(t) /\ Suffix(s, Len(t)) = t

(***************************************************************************)
(* explain_data_request_concern: truncation and prompt (main.py:158-187)   *)
(***************************************************************************)
\* Plausible slip: the comparison written >= instead of >.
truncated_html_ge(form_html) ==
    IF Len(form_html) >= MAX_HTML_LENGTH
    THEN Prefix(form_html, MAX_HTML_LENGTH) \o HTML_TRUNCATION_MARKER
    ELSE form_html

truncated_html(form_html) ==
    IF Len(form_html) > MAX_HTML_LENGTH
    THEN Prefix(form_html, MAX_HTML_LENGTH) \o HTML_TRUNCATION_MARKER
    ELSE form_html

DataRequestMessages(form_html) ==
    [system |-> DataRequestSystem,
     user |-> DataRequestUserHead \o truncated_html(form_html) \o DataRequestUserTail]

(***************************************************************************)
(* analyze_privacy_policy: text extraction (main.py:229-246)               *)
(***************************************************************************)
IsSpace(tok) == tok \in {" ", "\n"}

\* Concatenation of a sequence of strings.
RECURSIVE Flat(_)
Flat(toks) == IF toks = <<>> THEN "" ELSE Head(toks) \o Flat(Tail(toks))

\* for script in soup(["script", "style"]): script.decompose()
Decompose(nodes) == SelectSeq(nodes, LAMBDA n : n.tag \notin {"script", "style"})

\* soup.get_text(): the strings of every node still in the tree, in order.
RECURSIVE get_text(_)
get_text(nodes) ==
    IF nodes = <<>> THEN <<>> ELSE Head(nodes).toks \o get_text(Tail(nodes))

\* str.splitlines(): cut at every line break; no empty last line.
RECURSIVE SplitLinesFrom(_, _)
SplitLinesFrom(toks, cur) ==
    IF toks = <<>> THEN (IF cur = <<>> THEN <<>> ELSE <<cur>>)
    ELSE IF Head(toks) = "\n" THEN <<cur>> \o SplitLinesFrom(Tail(toks), <<>>)
    ELSE SplitLinesFrom(Tail(toks), Append(cur, Head(toks)))

splitlines(toks) == SplitLinesFrom(toks, <<>>)

\* str.strip(): leading and trailing whitespace removed.
RECURSIVE LStrip(_)
LStrip(toks) ==
    IF toks # <<>> /\ IsSpace(Head(toks)) THEN LStrip(Tail(toks)) ELSE toks

RECURSIVE RStrip(_)
RStrip(toks) ==
    IF toks # <<>> /\ IsSpace(toks[Len(toks)])
    THEN RStrip(SubSeq(toks, 1, Len(toks) - 1))
    ELSE toks

strip(toks) == RStrip(LStrip(toks))

\* line.split("  "): cut at every two adjacent spaces, left to right.
RECURSIVE SplitDoubleSpaceFrom(_, _)
SplitDoubleSpaceFrom(toks, cur) ==
    IF toks = <<>> THEN <<cur>>
    ELSE IF Len(toks) >= 2 /\ toks[1] = " " /\ toks[2] = " "
    THEN <<cur>> \o SplitDoubleSpaceFrom(SubSeq(toks, 3, Len(toks)), <<>>)
    ELSE SplitDoubleSpaceFrom(Tail(toks), Append(cur, Head(toks)))

split_double_space(line) == SplitDoubleSpaceFrom(line, <<>>)

\* chunks = (phrase.strip() for line in lines for phrase in line.split("  "))
RECURSIVE chunks(_)
chunks(lines) ==
    IF lines = <<>> THEN <<>>
    ELSE LET phrases == split_double_space(Head(lines))
         IN  [i \in 1..Len(phrases) |-> strip(phrases[i])] \o chunks(Tail(lines))

\* ' '.join(chunk for chunk in chunks if chunk)
RECURSIVE JoinSpace(_)
JoinSpace(cs) ==
    IF cs = <<>> THEN ""
    ELSE IF Len(cs) = 1 THEN Flat(cs[1])
    ELSE Flat(cs[1]) \o " " \o JoinSpace(Tail(cs))

\* main.py:240-242 on the text of get_text().
clean_text(toks) ==
    LET lines == [i \in 1..Len(splitlines(toks)) |-> strip(splitlines(toks)[i])]
    IN  JoinSpace(SelectSeq(chunks(lines), LAMBDA c : c # <<>>))

\* main.py:245-246
truncated_text(text_content) ==
    IF Len(text_content) > MAX_POLICY_LENGTH
    THEN Prefix(text_content, MAX_POLICY_LENGTH) \o CONTENT_TRUNCATION_MARKER
    ELSE text_content

\* The first n characters of a text given by its tokens.
RECURSIVE TakeTokens(_, _)
TakeTokens(toks, n) ==
    IF toks = <<>> \/ n = 0 THEN <<>>
    ELSE IF Len(Head(toks)) <= n
    THEN <<Head(toks)>> \o TakeTokens(Tail(toks), n - Len(Head(toks)))
    ELSE <<Prefix(Head(toks), n)>>

\* Plausible slip: the budget applied to the extracted text before the
\* whitespace is collapsed.
text_content_truncated_first(nodes) ==
    LET raw == get_text(Decompose(nodes))
    IN  IF Len(Flat(raw)) > MAX_POLICY_LENGTH
        THEN clean_text(TakeTokens(raw, MAX_POLICY_LENGTH)
                        \o <<"...", " ", "[content", " ", "truncated]">>)
        ELSE clean_text(raw)

\* main.py:230-246: the text embedded in the prompt for a fetched page.
text_content(nodes) == truncated_text(clean_text(get_text(Decompose(nodes))))

PrivacyPolicyMessages(nodes) ==
    [system |-> PrivacyPolicySystem,
     user |-> PrivacyPolicyUserHead \o text_content(nodes) \o PrivacyPolicyUserTail]

(***************************************************************************)
(* Exceptions and the values the external calls can produce                *)
(***************************************************************************)
NoException == [cls |-> "", msg |-> ""]

\* str(e)
str(e) == e.msg

\* httpx's exceptions that derive from httpx.HTTPError (RequestError and
\* HTTPStatusError); httpx.InvalidURL derives from Exception only.
HTTPErrorClasses == {"ConnectTimeout", "ConnectError", "HTTPStatusError"}

\* Plausible slip: only the status error of raise_for_status() is caught.
IsHTTPErrorStatusOnly(e) == e.cls = "HTTPStatusError"

\* except httpx.HTTPError as e  (main.py:222)
IsHTTPError(e) == e.cls \in HTTPErrorClasses

\* What pydantic raises when explanation is not a string.
ValidationError ==
    [cls |-> "ValidationError", msg |-> "1 validation error for ExplanationResponse"]

\* What BeautifulSoup raises on markup nested beyond the recursion limit.
RecursionError ==
    [cls |-> "RecursionError", msg |-> "maximum recursion depth exceeded"]

AIErrors == {[cls |-> "APIConnectionError", msg |-> "Connection error."]}

\* response.choices[0].message.content is Optional[str].
ModelTexts == {"", "Anyone on the network can read what you type into this form."}

AIResults ==
    {[kind |-> "returned", content |-> Some(t), exc |-> NoException] : t \in ModelTexts}
    \cup {[kind |-> "returned", content |-> None, exc |-> NoException]}
    \cup {[kind |-> "raised", content |-> None, exc |-> e] : e \in AIErrors}

NoAIResult == [kind |-> "none", content |-> None, exc |-> NoException]

(***************************************************************************)
(* Request bodies                                                          *)
(***************************************************************************)
A10 == "aaaaaaaaaa"

A100 == A10 \o A10 \o A10 \o A10 \o A10 \o A10 \o A10 \o A10 \o A10 \o A10

A1000 == A100 \o A100 \o A100 \o A100 \o A100 \o A100 \o A100 \o A100 \o A100 \o A100

A8000 == A1000 \o A1000 \o A1000 \o A1000 \o A1000 \o A1000 \o A1000 \o A1000

A10000 == A8000 \o A1000 \o A1000

Endpoints ==
    {"insecure_submission", "password_insecure_form", "data_request_concern",
     "analyze_privacy_policy"}

FormPurposes == {"login", "newsletter signup"}

\* A form of exactly n characters (n >= 13).
FormOfLength(n) == "<form>" \o Prefix(A10000, n - 13) \o "</form>"

FormHtmls ==
    {"<form><input name='email'><input name='ssn'></form>",
     FormOfLength(MAX_HTML_LENGTH),
     FormOfLength(MAX_HTML_LENGTH + 1)}

GoodUrl == "https://example.com/privacy"

\* httpx rejects this URL with InvalidURL before any connection is made.
MalformedUrl == "https://example.com:abc/privacy"

PolicyUrls == {GoodUrl, MalformedUrl}

NoBody == [form_purpose |-> "", form_html |-> "", policy_url |-> ""]

DataRequestBodies ==
    {[form_purpose |-> "login", form_html |-> h, policy_url |-> ""] : h \in FormHtmls}
    \cup {[form_purpose |-> "newsletter signup", form_html |-> h, policy_url |-> ""] :
              h \in {FormOfLength(MAX_HTML_LENGTH)}}

Bodies(ep) ==
    CASE ep = "data_request_concern" -> DataRequestBodies
      [] ep = "analyze_privacy_policy" ->
           {[form_purpose |-> "", form_html |-> "", policy_url |-> u] : u \in PolicyUrls}
      [] OTHER -> {NoBody}

(***************************************************************************)
(* Pages a policy URL can serve                                            *)
(***************************************************************************)
Text(toks) == [tag |-> "text", toks |-> toks]

Script(toks) == [tag |-> "script", toks |-> toks]

Style(toks) == [tag |-> "style", toks |-> toks]

Page(nodes) == [nodes |-> nodes, deep |-> FALSE]

Pages ==
    {\* fetched text over the budget, cleaned text of exactly the budget
     Page(<<Text(<<" ", "Privacy", " ", " ", "Policy", "\n">>),
            Script(<<"track(", A100, ")", ";">>),
            Style(<<"p", " ", "{}">>),
            Text(<<"\n", " ", " ", " ", Prefix(A8000, MAX_POLICY_LENGTH - 19), " ", " ",
                   " ", "\n", " ", " ", "bcd">>)>>),
     \* cleaned text one over the budget
     Page(<<Text(<<Prefix(A8000, MAX_POLICY_LENGTH - 1), " ", "b", "\n">>)>>),
     \* markup nested too deeply for the parser
     [nodes |-> <<Text(<<"x">>)>>, deep |-> TRUE]}

NoPage == [nodes |-> <<>>, deep |-> FALSE]

HTTPErrors ==
    {[cls |-> "ConnectTimeout", msg |-> "timed out"],
     [cls |-> "ConnectError", msg |-> "[Errno -2] Name or service not known"],
     [cls |-> "ConnectError", msg |-> "[Errno 111] Connection refused"],
     [cls |-> "HTTPStatusError", msg |-> "Client error '404 Not Found' for url"]}

InvalidURL == [cls |-> "InvalidURL", msg |-> "Invalid port: 'abc'"]

\* Outcomes of http_client.get(policy_url) followed by raise_for_status().
FetchResults(policy_url) ==
    IF policy_url = MalformedUrl
    THEN {[kind |-> "raised", page |-> NoPage, exc |-> InvalidURL]}
    ELSE {[kind |-> "returned", page |-> p, exc |-> NoException] : p \in Pages}
         \cup {[kind |-> "raised", page |-> NoPage, exc |-> e] : e \in HTTPErrors}

NoFetchResult == [kind |-> "none", page |-> NoPage, exc |-> NoException]

(***************************************************************************)
(* Responses                                                               *)
(***************************************************************************)
NoResponse == [kind |-> "none", explanation |-> "", success |-> FALSE, error |-> None]

\* ExplanationResponse(explanation=..., success=..., error=...), main.py:61-65
ExplanationResponse(explanation, success, error) ==
    [kind |-> "explanation", explanation |-> explanation, success |-> success,
     error |-> error]

HealthResponse(payload) ==
    [kind |-> "health", explanation |-> "", success |-> FALSE, error |-> None,
     payload |-> payload]

\* Plausible slip: the fallback of insecure_submission pasted into its twin.
FallbackResponsePasted(ep, request, e) ==
    CASE ep = "insecure_submission" ->
           ExplanationResponse(InsecureSubmissionFallback, TRUE,
                               Some(AIUnavailablePrefix \o str(e)))
      [] ep = "password_insecure_form" ->
           ExplanationResponse(InsecureSubmissionFallback, TRUE,
                               Some(AIUnavailablePrefix \o str(e)))
      [] ep = "data_request_concern" ->
           ExplanationResponse(DataRequestFallback(request.form_purpose), TRUE,
                               Some(AIUnavailablePrefix \o str(e)))
      [] ep = "analyze_privacy_policy" ->
           ExplanationResponse(PrivacyPolicyFallback, TRUE,
                               Some(AnalysisUnavailablePrefix \o str(e)))

\* Plausible slip: the purpose kept in a module-level variable that every
\* data_request_concern request overwrites.
FallbackResponseSharedPurpose(ep, request, e) ==
    LET S == {q \in Requests : endpoint[q] = "data_request_concern"}
        shared == IF S = {} THEN request.form_purpose
                  ELSE body[CHOOSE q \in S : \A o \in S : q <= o].form_purpose
    IN  CASE ep = "insecure_submission" ->
               ExplanationResponse(InsecureSubmissionFallback, TRUE,
                                   Some(AIUnavailablePrefix \o str(e)))
          [] ep = "password_insecure_form" ->
               ExplanationResponse(PasswordInsecureFormFallback, TRUE,
                                   Some(AIUnavailablePrefix \o str(e)))
          [] ep = "data_request_concern" ->
               ExplanationResponse(DataRequestFallback(shared), TRUE,
                                   Some(AIUnavailablePrefix \o str(e)))
          [] ep = "analyze_privacy_policy" ->
               ExplanationResponse(PrivacyPolicyFallback, TRUE,
                                   Some(AnalysisUnavailablePrefix \o str(e)))

\* The "except Exception as e" block of each handler
\* (main.py:98-110, 138-150, 197-209, 290-305).
FallbackResponse(ep, request, e) ==
    CASE ep = "insecure_submission" ->
           ExplanationResponse(InsecureSubmissionFallback, TRUE,
                               Some(AIUnavailablePrefix \o str(e)))
      [] ep = "password_insecure_form" ->
           ExplanationResponse(PasswordInsecureFormFallback, TRUE,
                               Some(AIUnavailablePrefix \o str(e)))
      [] ep = "data_request_concern" ->
           ExplanationResponse(DataRequestFallback(request.form_purpose), TRUE,
                               Some(AIUnavailablePrefix \o str(e)))
      [] ep = "analyze_privacy_policy" ->
           ExplanationResponse(PrivacyPolicyFallback, TRUE,
                               Some(AnalysisUnavailablePrefix \o str(e)))

\* The "except httpx.HTTPError as e" block (main.py:222-227).
FetchFailureResponse(e) ==
    ExplanationResponse(FetchFailureExplanation, FALSE, Some(HTTPErrorPrefix \o str(e)))

\* Plausible change: an empty completion treated like a failed one.
TryResultEmptyIsFailure(result) ==
    IF result.kind = "raised" THEN [raised |-> TRUE, exc |-> result.exc, value |-> NoResponse]
    ELSE IF result.content.isNone \/ result.content.val = ""
    THEN [raised |-> TRUE, exc |-> ValidationError, value |-> NoResponse]
    ELSE [raised |-> FALSE, exc |-> NoException,
          value |-> ExplanationResponse(result.content.val, TRUE, None)]

\* The try block from the completion call to its return (main.py:78-97,
\* 118-137, 164-196, 251-288): the call raises, or the model validation of
\* "explanation: str" raises on a missing content, or the response is built.
TryResult(result) ==
    IF result.kind = "raised" THEN [raised |-> TRUE, exc |-> result.exc, value |-> NoResponse]
    ELSE IF result.content.isNone
    THEN [raised |-> TRUE, exc |-> ValidationError, value |-> NoResponse]
    ELSE [raised |-> FALSE, exc |-> NoException,
          value |-> ExplanationResponse(result.content.val, TRUE, None)]

\* messages=[...] of each handler's completion call.
Messages(ep, request, page) ==
    CASE ep = "insecure_submission" -> InsecureSubmissionMessages
      [] ep = "password_insecure_form" -> PasswordInsecureFormMessages
      [] ep = "data_request_concern" -> DataRequestMessages(request.form_html)
      [] ep = "analyze_privacy_policy" -> PrivacyPolicyMessages(page.nodes)

(***************************************************************************)
(* Initial state                                                           *)
(***************************************************************************)
Terminal == {"SUCCEEDED", "DEGRADED"}

Init ==
    /\ pc = [r \in Requests |-> "idle"]
    /\ endpoint = [r \in Requests |-> ""]
    /\ body = [r \in Requests |-> NoBody]
    /\ fetched = [r \in Requests |-> NoFetchResult]
    /\ messages = [r \in Requests |-> NoMessages]
    /\ aiResult = [r \in Requests |-> NoAIResult]
    /\ response = [r \in Requests |-> NoResponse]
    /\ trace = [r \in Requests |-> <<>>]
    /\ fetchCalls = [r \in Requests |-> 0]
    /\ aiCalls = [r \in Requests |-> 0]
    /\ client = OpenAIClient

Enter(r, stage) ==
    /\ pc' = [pc EXCEPT ![r] = stage]
    /\ trace' = [trace EXCEPT ![r] = Append(@, stage)]

\* return ExplanationResponse(...): the call's arguments go out of scope.
Respond(r, stage, resp) ==
    /\ Enter(r, stage)
    /\ response' = [response EXCEPT ![r] = resp]
    /\ messages' = [messages EXCEPT ![r] = NoMessages]

(***************************************************************************)
(* Handlers                                                                *)
(***************************************************************************)
\* GET / (main.py:67-70)
health_check(r) ==
    /\ pc[r] = "idle"
    /\ endpoint' = [endpoint EXCEPT ![r] = "health"]
    /\ pc' = [pc EXCEPT ![r] = "DONE"]
    /\ response' = [response EXCEPT ![r] = HealthResponse(HealthPayload)]
    /\ UNCHANGED <<body, fetched, messages, aiResult, trace, fetchCalls, aiCalls, client>>

\* A POST whose body passed validation is dispatched to its handler.
Receive(r) ==
    /\ pc[r] = "idle"
    /\ \E ep \in Endpoints :
         \E b \in Bodies(ep) :
            /\ endpoint' = [endpoint EXCEPT ![r] = ep]
            /\ body' = [body EXCEPT ![r] = b]
    /\ Enter(r, "RECEIVED")
    /\ UNCHANGED <<fetched, messages, aiResult, response, fetchCalls, aiCalls, client>>

\* await http_client.get(request.policy_url, follow_redirects=True)  (main.py:218-220)
BeginFetch(r) ==
    /\ pc[r] = "RECEIVED"
    /\ endpoint[r] = "analyze_privacy_policy"
    /\ fetchCalls' = [fetchCalls EXCEPT ![r] = @ + 1]
    /\ Enter(r, "FETCHING")
    /\ UNCHANGED <<endpoint, body, fetched, messages, aiResult, response, aiCalls, client>>

\* The fetch returned a 2xx page (main.py:220-221, 230).
FetchReturns(r) ==
    /\ pc[r] = "FETCHING"
    /\ \E res \in FetchResults(body[r].policy_url) :
         /\ res.kind = "returned"
         /\ fetched' = [fetched EXCEPT ![r] = res]
    /\ Enter(r, "PROMPTING")
    /\ UNCHANGED <<endpoint, body, messages, aiResult, response, fetchCalls, aiCalls, client>>

\* The fetch raised: the inner handler for httpx.HTTPError, else the outer
\* "except Exception" (main.py:222-227, 290-305).
FetchRaises(r) ==
    /\ pc[r] = "FETCHING"
    /\ \E res \in FetchResults(body[r].policy_url) :
         /\ res.kind = "raised"
         /\ fetched' = [fetched EXCEPT ![r] = res]
         /\ Respond(r, "DEGRADED",
                    IF IsHTTPError(res.exc)
                    THEN FetchFailureResponse(res.exc)
                    ELSE FallbackResponse(endpoint[r], body[r], res.exc))
    /\ UNCHANGED <<endpoint, body, aiResult, fetchCalls, aiCalls, client>>

\* The three handlers without a fetch enter their try block (main.py:77, 117, 157).
BeginPrompt(r) ==
    /\ pc[r] = "RECEIVED"
    /\ endpoint[r] # "analyze_privacy_policy"
    /\ Enter(r, "PROMPTING")
    /\ UNCHANGED <<endpoint, body, fetched, messages, aiResult, response, fetchCalls, aiCalls, client>>

\* BeautifulSoup or get_text raises while the page is cleaned (main.py:230-242).
ExtractRaises(r) ==
    /\ pc[r] = "PROMPTING"
    /\ endpoint[r] = "analyze_privacy_policy"
    /\ fetched[r].page.deep
    /\ Respond(r, "DEGRADED", FallbackResponse(endpoint[r], body[r], RecursionError))
    /\ UNCHANGED <<endpoint, body, fetched, aiResult, fetchCalls, aiCalls, client>>

\* client.chat.completions.create(model=..., messages=[...])
\* (main.py:78-92, 118-132, 158-191, 230-276)
CallAI(r) ==
    /\ pc[r] = "PROMPTING"
    /\ ~fetched[r].page.deep
    /\ messages' = [messages EXCEPT ![r] = Messages(endpoint[r], body[r], fetched[r].page)]
    /\ aiCalls' = [aiCalls EXCEPT ![r] = @ + 1]
    /\ Enter(r, "CALLING_AI")
    /\ UNCHANGED <<endpoint, body, fetched, aiResult, response, fetchCalls, client>>

\* Plausible change: a failed completion call is tried once more.
AIReturnsRetrying(r) ==
    /\ pc[r] = "CALLING_AI"
    /\ \E res \in AIResults :
         LET t == TryResult(res)
         IN  /\ aiResult' = [aiResult EXCEPT ![r] = res]
             /\ IF t.raised /\ aiCalls[r] < 2
                THEN /\ Enter(r, "CALLING_AI")
                     /\ aiCalls' = [aiCalls EXCEPT ![r] = @ + 1]
                     /\ UNCHANGED <<response, messages>>
                ELSE /\ UNCHANGED aiCalls
                     /\ IF t.raised
                        THEN Respond(r, "DEGRADED",
                                     FallbackResponse(endpoint[r], body[r], t.exc))
                        ELSE Respond(r, "SUCCEEDED", t.value)
    /\ UNCHANGED <<endpoint, body, fetched, fetchCalls, client>>

\* The completion call returns or raises and the handler returns its response.
AIReturns(r) ==
    /\ pc[r] = "CALLING_AI"
    /\ \E res \in AIResults :
         LET t == TryResult(res)
         IN  /\ aiResult' = [aiResult EXCEPT ![r] = res]
             /\ IF t.raised
                THEN Respond(r, "DEGRADED", FallbackResponse(endpoint[r], body[r], t.exc))
                ELSE Respond(r, "SUCCEEDED", t.value)
    /\ UNCHANGED <<endpoint, body, fetched, fetchCalls, aiCalls, client>>

Next ==
    \E r \in Requests :
        \/ health_check(r)
        \/ Receive(r)
        \/ BeginFetch(r)
        \/ FetchReturns(r)
        \/ FetchRaises(r)
        \/ BeginPrompt(r)
        \/ ExtractRaises(r)
        \/ CallAI(r)
        \/ AIReturns(r)

Spec == Init /\ [][Next]_vars

(***************************************************************************)
(* Properties                                                              *)
(***************************************************************************)
Answered(r) == pc[r] \in Terminal

\* The part of a user message between its fixed head and its fixed tail.
Embedded(user, head, tail) == SubSeq(user, Len(head) + 1, Len(user) - Len(tail))

\* C1: every response of an analysis endpoint carries a non-empty
\* explanation, whatever the completion call produced.
C1_ExplanationNeverEmpty ==
    \A r \in Requests : Answered(r) => response[r].explanation # ""

\* C2: a response has success = false exactly when it comes from
\* analyze_privacy_policy and the fetch of policy_url failed, whatever the
\* fetch raised.
C2_SuccessFalseIffFetchFailed ==
    \A r \in Requests :
        Answered(r) =>
            (response[r].success = FALSE
                <=> (endpoint[r] = "analyze_privacy_policy" /\ fetched[r].kind = "raised"))

\* C3: when the fetch fails with an HTTP-layer error (timeout, DNS failure,
\* connection refused, non-2xx status) the handler returns at once the static
\* "Unable to access" explanation with success = false and the error's text
\* behind "HTTP error: ", and never calls the AI adapter for that request.
C3_FetchFailureReturnsAtOnce ==
    \A r \in Requests :
        (fetched[r].kind = "raised" /\ fetched[r].exc \in HTTPErrors) =>
            /\ trace[r] = <<"RECEIVED", "FETCHING", "DEGRADED">>
            /\ response[r].kind = "explanation"
            /\ response[r].explanation =
                 "Unable to access the privacy policy. The link may be broken or the site may be blocking automated access."
            /\ response[r].success = FALSE
            /\ response[r].error = Some("HTTP error: " \o fetched[r].exc.msg)
            /\ aiCalls[r] = 0
            /\ aiResult[r] = NoAIResult
            /\ messages[r] = NoMessages

C3_Witness ==
    \E r \in Requests :
        /\ fetched[r].kind = "raised"
        /\ fetched[r].exc.cls = "ConnectTimeout"
        /\ Answered(r)

DesignatedFallback(r) ==
    CASE endpoint[r] = "insecure_submission" -> InsecureSubmissionFallback
      [] endpoint[r] = "password_insecure_form" -> PasswordInsecureFormFallback
      [] endpoint[r] = "data_request_concern" ->
           "When filling out a '" \o body[r].form_purpose \o DataRequestFallbackTail
      [] endpoint[r] = "analyze_privacy_policy" -> PrivacyPolicyFallback

DesignatedPrefix(r) ==
    IF endpoint[r] = "analyze_privacy_policy"
    THEN "Analysis service unavailable: "
    ELSE "AI service unavailable, using fallback explanation: "

\* C4: when the completion call raises, the response is the endpoint's own
\* fallback text (for data_request_concern with the caller's form_purpose
\* embedded), success = true, error = the endpoint's prefix followed by the
\* exception's text; two different endpoints never give the same fallback.
C4_FallbackOnAIFailure ==
    /\ \A r \in Requests :
          aiResult[r].kind = "raised" =>
              /\ pc[r] = "DEGRADED"
              /\ response[r].explanation = DesignatedFallback(r)
              /\ response[r].success = TRUE
              /\ response[r].error = Some(DesignatedPrefix(r) \o aiResult[r].exc.msg)
    /\ \A r, q \in Requests :
          (aiResult[r].kind = "raised" /\ aiResult[q].kind = "raised"
             /\ endpoint[r] # endpoint[q]) =>
              response[r].explanation # response[q].explanation

C4_Witness ==
    \E r, q \in Requests :
        /\ aiResult[r].kind = "raised" /\ endpoint[r] = "data_request_concern"
        /\ body[r].form_purpose = "newsletter signup"
        /\ aiResult[q].kind = "raised" /\ endpoint[q] = "password_insecure_form"

\* C5 as stated: whenever the completion call returns without raising, the
\* response is (the returned text, success = true, no error), with no
\* fallback and no diagnostic, for every value the call can return.
C5_ReturnedTextRelayed ==
    \A r \in Requests :
        aiResult[r].kind = "returned" =>
            /\ pc[r] = "SUCCEEDED"
            /\ response[r].success = TRUE
            /\ response[r].error = None
            /\ (~aiResult[r].content.isNone =>
                    response[r].explanation = aiResult[r].content.val)

\* C5 amended: whenever the completion call returns without raising and its
\* content is a string (the empty string included), the response is exactly
\* (that string unchanged, success = true, no error).
C5_ReturnedStringRelayed ==
    \A r \in Requests :
        (aiResult[r].kind = "returned" /\ ~aiResult[r].content.isNone) =>
            /\ pc[r] = "SUCCEEDED"
            /\ response[r] =
                 [kind |-> "explanation", explanation |-> aiResult[r].content.val,
                  success |-> TRUE, error |-> None]

C5_Witness ==
    \E r, q \in Requests :
        /\ aiResult[r].kind = "returned" /\ aiResult[r].content = Some("")
        /\ Answered(r)
        /\ aiResult[q].kind = "returned" /\ ~aiResult[q].content.isNone
        /\ aiResult[q].content.val # ""
        /\ Answered(q)

EmbeddedHtml(r) == Embedded(messages[r].user, DataRequestUserHead, DataRequestUserTail)

\* C6: the HTML embedded in the prompt is form_html itself when its length
\* is at most 10,000, and otherwise its first 10,000 characters followed by
\* the truncation marker (length exactly 10,000 + the marker's length).
C6_FormHtmlTruncation ==
    \A r \in Requests :
        (endpoint[r] = "data_request_concern" /\ pc[r] = "CALLING_AI") =>
            LET h == body[r].form_html
            IN  /\ messages[r].user =
                     DataRequestUserHead \o EmbeddedHtml(r) \o DataRequestUserTail
                /\ Len(h) <= 10000 => EmbeddedHtml(r) = h
                /\ Len(h) > 10000 =>
                     /\ EmbeddedHtml(r) = SubSeq(h, 1, 10000) \o "... [HTML truncated]"
                     /\ EndsWith(EmbeddedHtml(r), "... [HTML truncated]")
                     /\ Len(EmbeddedHtml(r)) = 10000 + Len("... [HTML truncated]")

C6_Witness ==
    \E r, q \in Requests :
        /\ endpoint[r] = "data_request_concern" /\ pc[r] = "CALLING_AI"
        /\ Len(body[r].form_html) > 10000
        /\ endpoint[q] = "data_request_concern" /\ pc[q] = "CALLING_AI"
        /\ Len(body[q].form_html) = 10000

EmbeddedPolicy(r) ==
    Embedded(messages[r].user, PrivacyPolicyUserHead, PrivacyPolicyUserTail)

\* The page's text after script/style removal and whitespace collapsing.
CleanedPolicy(r) == clean_text(get_text(Decompose(fetched[r].page.nodes)))

\* The page's text as fetched, markup contents included.
RawPolicy(r) == Flat(get_text(fetched[r].page.nodes))

\* C7: the policy text embedded in the prompt is the cleaned text itself
\* when that is at most 8,000 characters long, and otherwise its first 8,000
\* characters followed by a truncation marker; the budget is applied to the
\* cleaned text, not to the fetched one.
C7_PolicyTextTruncation ==
    \A r \in Requests :
        (endpoint[r] = "analyze_privacy_policy" /\ pc[r] = "CALLING_AI") =>
            LET c == CleanedPolicy(r)
            IN  /\ messages[r].user =
                     PrivacyPolicyUserHead \o EmbeddedPolicy(r) \o PrivacyPolicyUserTail
                /\ Len(c) <= 8000 => EmbeddedPolicy(r) = c
                /\ Len(c) > 8000 =>
                     EmbeddedPolicy(r) = SubSeq(c, 1, 8000) \o "... [content truncated]"

C7_Witness ==
    \E r, q \in Requests :
        /\ endpoint[r] = "analyze_privacy_policy" /\ pc[r] = "CALLING_AI"
        /\ Len(CleanedPolicy(r)) > 8000
        /\ endpoint[q] = "analyze_privacy_policy" /\ pc[q] = "CALLING_AI"
        /\ Len(RawPolicy(q)) > 8000
        /\ Len(CleanedPolicy(q)) <= 8000

\* C8: GET / answers the fixed payload and makes no fetch and no completion
\* call, whatever the other requests are doing or have been answered.
C8_HealthPayloadFixed ==
    \A r \in Requests :
        endpoint[r] = "health" =>
            /\ response[r].kind = "health"
            /\ response[r].payload =
                 [status |-> "healthy", service |-> "TRACE AI Backend", version |-> "1.0.0"]
            /\ aiCalls[r] = 0
            /\ fetchCalls[r] = 0
            /\ messages[r] = NoMessages
            /\ fetched[r] = NoFetchResult

C8_Witness ==
    \E r, q \in Requests :
        /\ endpoint[r] = "health" /\ response[r].kind = "health"
        /\ pc[q] = "DEGRADED" /\ aiResult[q].kind = "raised"

AllowedPaths(ep) ==
    IF ep = "analyze_privacy_policy"
    THEN {<<"RECEIVED", "FETCHING", "PROMPTING", "CALLING_AI", "SUCCEEDED">>,
          <<"RECEIVED", "FETCHING", "PROMPTING", "CALLING_AI", "DEGRADED">>,
          <<"RECEIVED", "FETCHING", "PROMPTING", "DEGRADED">>,
          <<"RECEIVED", "FETCHING", "DEGRADED">>}
    ELSE {<<"RECEIVED", "PROMPTING", "CALLING_AI", "SUCCEEDED">>,
          <<"RECEIVED", "PROMPTING", "CALLING_AI", "DEGRADED">>}

IsPrefix(s, t) == Len(s) <= Len(t) /\ SubSeq(t, 1, Len(s)) = s

Count(seq, x) == Cardinality({i \in 1..Len(seq) : seq[i] = x})

\* Everything the model keeps about one request.
Own(r) ==
    <<pc[r], endpoint[r], body[r], fetched[r], messages[r], aiResult[r],
      response[r], trace[r], fetchCalls[r], aiCalls[r]>>

OnPath(r) ==
    /\ \E path \in AllowedPaths(endpoint[r]) : IsPrefix(trace[r], path)
    /\ trace[r] # <<>> => pc[r] = trace[r][Len(trace[r])]
    /\ fetchCalls[r] = Count(trace[r], "FETCHING") /\ fetchCalls[r] <= 1
    /\ aiCalls[r] = Count(trace[r], "CALLING_AI") /\ aiCalls[r] <= 1
    /\ aiCalls[r] > 0 /\ endpoint[r] = "analyze_privacy_policy" =>
          fetchCalls[r] = 1 /\ fetched[r].kind = "returned"
    /\ (response[r].kind = "explanation") <=> Answered(r)
    /\ pc[r] = "DEGRADED" => aiResult[r].kind # "returned" \/ aiResult[r].content.isNone
    /\ pc[r] = "SUCCEEDED" => aiResult[r].kind = "returned"

\* C9: a dispatched request moves RECEIVED -> (FETCHING) -> PROMPTING ->
\* CALLING_AI -> SUCCEEDED or DEGRADED, with FETCHING on the privacy endpoint
\* only; it makes at most one fetch and one completion call, the fetch first;
\* a failing step ends it at once (nothing is retried); it is answered
\* exactly once, and an answered request takes no further step.
C9_LinearPathNoRetry ==
    /\ [](\A r \in Requests : endpoint[r] \in Endpoints => OnPath(r))
    /\ [][\A r \in Requests : Answered(r) => Own(r)' = Own(r)]_vars

C9_Witness ==
    \E r, q \in Requests :
        /\ trace[r] = <<"RECEIVED", "FETCHING", "PROMPTING", "DEGRADED">>
        /\ trace[q] = <<"RECEIVED", "PROMPTING", "CALLING_AI", "DEGRADED">>

\* The response a request's own body and own call outcomes call for.
OwnResponse(r) ==
    IF endpoint[r] = "analyze_privacy_policy" /\ fetched[r].kind = "raised"
    THEN IF fetched[r].exc.cls \in HTTPErrorClasses
         THEN [kind |-> "explanation", explanation |-> FetchFailureExplanation,
               success |-> FALSE, error |-> Some("HTTP error: " \o fetched[r].exc.msg)]
         ELSE [kind |-> "explanation", explanation |-> DesignatedFallback(r),
               success |-> TRUE, error |-> Some(DesignatedPrefix(r) \o fetched[r].exc.msg)]
    ELSE IF aiResult[r].kind = "none"
    THEN [kind |-> "explanation", explanation |-> DesignatedFallback(r),
          success |-> TRUE, error |-> Some(DesignatedPrefix(r) \o RecursionError.msg)]
    ELSE IF aiResult[r].kind = "raised"
    THEN [kind |-> "explanation", explanation |-> DesignatedFallback(r),
          success |-> TRUE, error |-> Some(DesignatedPrefix(r) \o aiResult[r].exc.msg)]
    ELSE IF aiResult[r].content.isNone
    THEN [kind |-> "explanation", explanation |-> DesignatedFallback(r),
          success |-> TRUE, error |-> Some(DesignatedPrefix(r) \o ValidationError.msg)]
    ELSE [kind |-> "explanation", explanation |-> aiResult[r].content.val,
          success |-> TRUE, error |-> None]

\* C10: under every interleaving, a request's response is the one its own
\* body and the outcomes of its own fetch and completion call determine;
\* a step of one request leaves every other request as it was, and the
\* shared client object is never changed.
C10_RequestsDoNotInteract ==
    /\ [](\A r \in Requests : Answered(r) => response[r] = OwnResponse(r))
    /\ [](client = OpenAIClient)
    /\ [][\A r, q \in Requests : (r # q /\ Own(r)' # Own(r)) => Own(q)' = Own(q)]_vars

C10_Witness ==
    \E r, q \in Requests :
        /\ endpoint[r] = "data_request_concern" /\ endpoint[q] = "data_request_concern"
        /\ body[r].form_purpose # body[q].form_purpose
        /\ aiResult[r].kind = "raised" /\ aiResult[q].kind = "returned"
        /\ Answered(r) /\ Answered(q)

====
